---- MODULE Spec2Model ----
(***************************************************************************)
(* Model of src/lib.rs of the `advancer` crate: the Length, Advance and    *)
(* AdvanceArray traits and their implementations for &[T] and &mut [T].    *)
(*                                                                         *)
(* A slice reference is a fat pointer [ptr, len].  Addresses are counted   *)
(* in elements, so ptr.add(k) is ptr + k.  usize is scaled down to         *)
(* UsizeBits bits and usize arithmetic wraps modulo 2^UsizeBits.           *)
(***************************************************************************)
EXTENDS Integers, Sequences, FiniteSets, TLC

\* ---------------------------------------------------------------- bounds
\* Width of usize in the model.
UsizeBits == 3
\* Longest backing buffer.
MaxLen == 3
\* Number of calls and writes in one behaviour.
MaxSteps == 3

\* Element values of T.
Elems == {0, 1}
\* Addresses at which the backing buffer may start (non-null).
Bases == {1, 2}

\* ----------------------------------------------------------- usize, memory
RECURSIVE Pow2(_)
Pow2(n) == IF n = 0 THEN 1 ELSE 2 * Pow2(n - 1)

Modulus == Pow2(UsizeBits)

USIZE_MAX == Modulus - 1

Usize == 0..USIZE_MAX

WrapAdd(a, b) == (a + b) % Modulus

WrapSub(a, b) == (a - b + Modulus) % Modulus

\* Value every address outside the backing buffer holds.
Pad == CHOOSE e \in Elems : TRUE

\* Counts a call is made with: every count up to one past the longest buffer,
\* and the largest usize.
Amounts == (0..(MaxLen + 1)) \cup {USIZE_MAX}

SeqsUpTo(n) == UNION {[1..k -> Elems] : k \in 0..n}

VARIABLES
    mutable,   \* TRUE: the handle is a &mut [T]; FALSE: a &[T]
    buf,       \* the backing buffer [ptr, len], fixed for the behaviour
    mem,       \* memory: address -> element
    handle,    \* the cursor handle, a fat pointer [ptr, len]
    views,     \* consumed views returned so far, in call order
    live,      \* TRUE while the latest consumed view still borrows the handle
    last,      \* the latest call: its arguments, the state before it, its result
    wr,        \* the latest write: [addr, old, new]
    steps      \* calls and writes made so far

vars == <<mutable, buf, mem, handle, views, live, last, wr, steps>>

NoView == [ptr |-> 0, len |-> 0]

\* The elements a view shows, read from memory m.
ContentIn(m, v) == [i \in 1..v.len |-> m[WrapAdd(v.ptr, i - 1)]]

Content(v) == ContentIn(mem, v)

\* The addresses a view covers.
Range(v) == {WrapAdd(v.ptr, i) : i \in 0..(v.len - 1)}

\* ------------------------------------------------------------------ Length
len(self) == self.len

is_empty(self) == len(self) = 0

\* --------------------------------------------- impl Advance for &mut [T], &[T]
\* Each returns the rebound handle (self) and the returned view (out).
\* Slip: the handle keeps its start address, so it overlaps the returned view.
advance_unchecked_mut_overlap(self, amount) ==
    LET l == len(self)
        ptr == self.ptr
    IN  [self |-> [ptr |-> ptr, len |-> WrapSub(l, amount)],
         out  |-> [ptr |-> ptr, len |-> amount]]

advance_unchecked_mut(self, amount) ==
    LET l == len(self)
        ptr == self.ptr
    IN  [self |-> [ptr |-> WrapAdd(ptr, amount), len |-> WrapSub(l, amount)],
         out  |-> [ptr |-> ptr, len |-> amount]]

\* Slip: the handle moves on but keeps its old length.
advance_unchecked_ref_keeps_len(self, amount) ==
    LET l == len(self)
        ptr == self.ptr
    IN  [self |-> [ptr |-> WrapAdd(ptr, amount), len |-> l],
         out  |-> [ptr |-> ptr, len |-> amount]]

\* Slip: the returned view starts where the rebound handle starts.
advance_unchecked_ref_out_at_tail(self, amount) ==
    LET l == len(self)
        ptr == self.ptr
    IN  [self |-> [ptr |-> WrapAdd(ptr, amount), len |-> WrapSub(l, amount)],
         out  |-> [ptr |-> WrapAdd(ptr, amount), len |-> amount]]

advance_unchecked_ref(self, amount) ==
    LET l == len(self)
        ptr == self.ptr
    IN  [self |-> [ptr |-> WrapAdd(ptr, amount), len |-> WrapSub(l, amount)],
         out  |-> [ptr |-> ptr, len |-> amount]]

\* Trait dispatch on the handle's type.
advance_unchecked(isMut, self, amount) ==
    IF isMut THEN advance_unchecked_mut(self, amount)
             ELSE advance_unchecked_ref(self, amount)

\* ----------------------------------------- impl AdvanceArray for &mut [T], &[T]
\* The slice advance_unchecked(N) returns is turned into its address and the
\* address is cast to *[T; N]: the array view's length is N by its type.
\* Slip: the address cast is the rebound handle's, not the returned slice's.
advance_array_unchecked_mut_casts_self(self, N) ==
    LET r == advance_unchecked_mut(self, N)
    IN  [self |-> r.self, out |-> [ptr |-> r.self.ptr, len |-> N]]

advance_array_unchecked_mut(self, N) ==
    LET r == advance_unchecked_mut(self, N)
    IN  [self |-> r.self, out |-> [ptr |-> r.out.ptr, len |-> N]]

advance_array_unchecked_ref(self, N) ==
    LET r == advance_unchecked_ref(self, N)
    IN  [self |-> r.self, out |-> [ptr |-> r.out.ptr, len |-> N]]

advance_array_unchecked(isMut, self, N) ==
    IF isMut THEN advance_array_unchecked_mut(self, N)
             ELSE advance_array_unchecked_ref(self, N)

\* --------------------------------------------------- trait default methods
Ok(r) == [status |-> "ok", self |-> r.self, out |-> r.out,
          needed |-> 0, remaining |-> 0]

Panic(self) == [status |-> "panic", self |-> self, out |-> NoView,
                needed |-> 0, remaining |-> 0]

NotEnoughData(self, n, rem) == [status |-> "err", self |-> self, out |-> NoView,
                                needed |-> n, remaining |-> rem]

\* Slip: the handle is rebound before the assertion is evaluated.
advance_asserts_late(isMut, self, amount) ==
    LET r == advance_unchecked(isMut, self, amount)
    IN  IF ~(amount <= len(self)) THEN Panic(r.self) ELSE Ok(r)

\* Slip: the bound is exclusive.
advance_strict(isMut, self, amount) ==
    IF ~(amount < len(self))
    THEN Panic(self)
    ELSE Ok(advance_unchecked(isMut, self, amount))

advance(isMut, self, amount) ==
    IF ~(amount <= len(self))
    THEN Panic(self)
    ELSE Ok(advance_unchecked(isMut, self, amount))

\* Slip: a short read consumes what is there before it reports the error.
try_advance_partial(isMut, self, amount) ==
    IF len(self) < amount
    THEN NotEnoughData(advance_unchecked(isMut, self, len(self)).self, amount, len(self))
    ELSE Ok(advance_unchecked(isMut, self, amount))

\* Slip: the bound is exclusive.
try_advance_strict(isMut, self, amount) ==
    IF len(self) <= amount
    THEN NotEnoughData(self, amount, len(self))
    ELSE Ok(advance_unchecked(isMut, self, amount))

\* Slip: a short read is truncated to what is there.
try_advance_truncates(isMut, self, amount) ==
    IF len(self) < amount
    THEN Ok(advance_unchecked(isMut, self, len(self)))
    ELSE Ok(advance_unchecked(isMut, self, amount))

try_advance(isMut, self, amount) ==
    IF len(self) < amount
    THEN NotEnoughData(self, amount, len(self))
    ELSE Ok(advance_unchecked(isMut, self, amount))

advance_array(isMut, self, N) ==
    IF ~(N <= len(self))
    THEN Panic(self)
    ELSE Ok(advance_array_unchecked(isMut, self, N))

\* Slip: the error's two fields are exchanged.
try_advance_array_swapped(isMut, self, N) ==
    IF len(self) < N
    THEN NotEnoughData(self, len(self), N)
    ELSE Ok(advance_array_unchecked(isMut, self, N))

try_advance_array(isMut, self, N) ==
    IF len(self) < N
    THEN NotEnoughData(self, N, len(self))
    ELSE Ok(advance_array_unchecked(isMut, self, N))

\* ------------------------------------------------------------------- state
NoCall == [op |-> "none", amount |-> 0, status |-> "none", pre |-> NoView,
           preContent |-> <<>>, preViews |-> <<>>, out |-> NoView,
           needed |-> 0, remaining |-> 0]

NoWrite == [addr |-> 0, old |-> 0, new |-> 0]

Init ==
    /\ mutable \in BOOLEAN
    /\ \E base \in Bases, S \in SeqsUpTo(MaxLen) :
         /\ base + Len(S) <= USIZE_MAX
         /\ buf = [ptr |-> base, len |-> Len(S)]
         /\ mem = [a \in Usize |->
                     IF base <= a /\ a < base + Len(S) THEN S[a - base + 1] ELSE Pad]
    /\ handle = buf
    /\ views = <<>>
    /\ live = FALSE
    /\ last = NoCall
    /\ wr = NoWrite
    /\ steps = 0

\* The contents of every consumed view, in call order.
ViewContents == [i \in 1..Len(views) |-> Content(views[i])]

\* A call of `op` with argument `amount` whose result is r: the handle is
\* rebound to r.self and a returned view is recorded.  The call borrows the
\* handle mutably, which ends the borrow of any earlier view; a returned view
\* borrows it anew.
Call(op, amount, r) ==
    /\ steps < MaxSteps
    /\ steps' = steps + 1
    /\ handle' = r.self
    /\ views' = IF r.status = "ok" THEN Append(views, r.out) ELSE views
    /\ live' = (r.status = "ok")
    /\ last' = [op |-> op, amount |-> amount, status |-> r.status, pre |-> handle,
                preContent |-> Content(handle), preViews |-> ViewContents,
                out |-> r.out, needed |-> r.needed, remaining |-> r.remaining]
    /\ UNCHANGED <<mutable, buf, mem, wr>>

Advance == \E amount \in Amounts :
    Call("advance", amount, advance(mutable, handle, amount))

TryAdvance == \E amount \in Amounts :
    Call("try_advance", amount, try_advance(mutable, handle, amount))

AdvanceArray == \E N \in Amounts :
    Call("advance_array", N, advance_array(mutable, handle, N))

TryAdvanceArray == \E N \in Amounts :
    Call("try_advance_array", N, try_advance_array(mutable, handle, N))

\* The unsafe methods called directly, within their safety contract
\* (the caller guarantees that the count is not greater than the length).
AdvanceUnchecked == \E amount \in Amounts :
    /\ amount <= len(handle)
    /\ Call("advance_unchecked", amount, Ok(advance_unchecked(mutable, handle, amount)))

AdvanceArrayUnchecked == \E N \in Amounts :
    /\ N <= len(handle)
    /\ Call("advance_array_unchecked", N, Ok(advance_array_unchecked(mutable, handle, N)))

Write(op, addr, v) ==
    /\ steps < MaxSteps
    /\ steps' = steps + 1
    /\ mem' = [mem EXCEPT ![addr] = v]
    /\ wr' = [addr |-> addr, old |-> mem[addr], new |-> v]
    /\ last' = [NoCall EXCEPT !.op = op, !.pre = handle,
                              !.preContent = Content(handle),
                              !.preViews = ViewContents]
    /\ UNCHANGED <<mutable, buf, handle, views>>

\* A write through the latest consumed view of a &mut [T] handle, while the
\* view is alive.
WriteConsumed ==
    /\ mutable
    /\ live
    /\ Len(views) > 0
    /\ \E addr \in Range(views[Len(views)]), v \in Elems : Write("write_consumed", addr, v)
    /\ UNCHANGED live

\* A write through the &mut [T] handle itself; using the handle ends the borrow
\* of the consumed view.
WriteRemaining ==
    /\ mutable
    /\ \E addr \in Range(handle), v \in Elems : Write("write_remaining", addr, v)
    /\ live' = FALSE

Next ==
    \/ Advance
    \/ TryAdvance
    \/ AdvanceArray
    \/ TryAdvanceArray
    \/ AdvanceUnchecked
    \/ AdvanceArrayUnchecked
    \/ WriteConsumed
    \/ WriteRemaining

Spec == Init /\ [][Next]_vars

\* ------------------------------------------------------------------ claims
\* The state the latest call left, as a result record.
After == [self |-> handle, out |-> last.out]

CheckedOps == {"advance", "advance_array"}

FallibleOps == {"try_advance", "try_advance_array"}

\* C1: advance(k) with 0 <= k <= L on a handle viewing S returns a view of
\* length k equal to S[0..k] and rebinds the handle to address base+k, length
\* L-k, equal to S[k..L]; consumed followed by remaining is S.  Both for the
\* &[T] and the &mut [T] handle (mutable ranges over both).
C1_AdvanceSplits ==
    (last.op = "advance" /\ last.amount <= last.pre.len) =>
        /\ last.status = "ok"
        /\ last.out.ptr = last.pre.ptr
        /\ last.out.len = last.amount
        /\ Content(last.out) = SubSeq(last.preContent, 1, last.amount)
        /\ handle.ptr = last.pre.ptr + last.amount
        /\ handle.len = last.pre.len - last.amount
        /\ Content(handle) = SubSeq(last.preContent, last.amount + 1, last.pre.len)
        /\ Content(last.out) \o Content(handle) = last.preContent

C1_Witness ==
    /\ last.op = "advance" /\ last.status = "ok"
    /\ 0 < last.amount /\ last.amount < last.pre.len
    /\ ~mutable
    /\ last.pre.ptr # buf.ptr

\* C2: try_advance(k) with k > L returns NotEnoughData{needed: k, remaining: L}
\* and leaves the handle as it was: same address, same length, same content,
\* no view returned.
C2_TryAdvanceShort ==
    (last.op = "try_advance" /\ last.amount > last.pre.len) =>
        /\ last.status = "err"
        /\ last.needed = last.amount
        /\ last.remaining = last.pre.len
        /\ handle = last.pre
        /\ Content(handle) = last.preContent
        /\ ViewContents = last.preViews

C2_Witness ==
    /\ last.op = "try_advance" /\ last.status = "err"
    /\ last.pre.len > 0
    /\ last.pre.ptr # buf.ptr
    /\ last.needed # last.remaining

\* C3: advance(amount) and advance_array::<N>() panic exactly when the count
\* exceeds the handle's length, with the handle not yet rebound; otherwise
\* they give the view and the handle the unchecked form gives.
C3_CheckedAsserts ==
    (last.op \in CheckedOps) =>
        /\ last.status \in {"ok", "panic"}
        /\ (last.status = "panic") <=> (last.amount > last.pre.len)
        /\ (last.status = "panic") =>
              /\ handle = last.pre
              /\ ViewContents = last.preViews
        /\ (last.status = "ok" /\ last.op = "advance") =>
              After = advance_unchecked(mutable, last.pre, last.amount)
        /\ (last.status = "ok" /\ last.op = "advance_array") =>
              After = advance_array_unchecked(mutable, last.pre, last.amount)

C3_Witness ==
    /\ last.op = "advance" /\ last.status = "panic"
    /\ last.amount = last.pre.len + 1
    /\ last.pre.len > 0

\* C4: advance_array::<N>() with N <= L returns a view of exactly N elements
\* equal to S[0..N] and leaves the handle equal to S[N..L]: the same view and
\* the same handle as advance(N) from the same handle.
C4_ArrayAsAdvance ==
    (last.op = "advance_array" /\ last.amount <= last.pre.len) =>
        /\ last.status = "ok"
        /\ last.out.len = last.amount
        /\ Content(last.out) = SubSeq(last.preContent, 1, last.amount)
        /\ Content(handle) = SubSeq(last.preContent, last.amount + 1, last.pre.len)
        /\ LET a == advance(mutable, last.pre, last.amount)
           IN  /\ a.status = "ok"
               /\ a.out = last.out
               /\ a.self = handle

C4_Witness ==
    /\ last.op = "advance_array" /\ last.status = "ok"
    /\ 0 < last.amount /\ last.amount < last.pre.len
    /\ mutable
    /\ Content(last.out) # Content(handle)

\* C5: try_advance_array::<N>() with N > L returns NotEnoughData{needed: N,
\* remaining: L} and leaves the handle as it was; with N <= L it succeeds with
\* the result of advance_array::<N>().
C5_TryArray ==
    (last.op = "try_advance_array") =>
        IF last.amount > last.pre.len
        THEN /\ last.status = "err"
             /\ last.needed = last.amount
             /\ last.remaining = last.pre.len
             /\ handle = last.pre
             /\ Content(handle) = last.preContent
             /\ ViewContents = last.preViews
        ELSE /\ last.status = "ok"
             /\ last.out = [ptr |-> last.pre.ptr, len |-> last.amount]
             /\ LET a == advance_array(mutable, last.pre, last.amount)
                IN  /\ a.status = "ok"
                    /\ a.out = last.out
                    /\ a.self = handle

C5_Witness ==
    /\ last.op = "try_advance_array" /\ last.status = "err"
    /\ last.pre.len > 0
    /\ last.needed = last.pre.len + 1

\* C6: after any calls, the consumed views are pairwise disjoint, none overlaps
\* the handle, and the views in call order followed by the handle cover the
\* original buffer with no gap and no repetition.
ViewStart(i) == IF i = Len(views) + 1 THEN handle.ptr ELSE views[i].ptr

C6_Partition ==
    /\ ViewStart(1) = buf.ptr
    /\ \A i \in 1..Len(views) : ViewStart(i + 1) = views[i].ptr + views[i].len
    /\ handle.ptr + handle.len = buf.ptr + buf.len
    /\ \A i, j \in 1..Len(views) : i # j => Range(views[i]) \cap Range(views[j]) = {}
    /\ \A i \in 1..Len(views) : Range(views[i]) \cap Range(handle) = {}
    /\ UNION {Range(views[i]) : i \in 1..Len(views)} \cup Range(handle) = Range(buf)

C6_Witness ==
    /\ Len(views) = 2
    /\ views[1].len > 0 /\ views[2].len > 0 /\ handle.len > 0
    /\ last.status \in {"err", "panic"}

\* C7: for a &mut [T] handle, a write through the consumed view changes no
\* element the handle shows, and a write through the handle changes no element
\* of a consumed view.
C7_NoAliasing ==
    /\ (last.op = "write_consumed") => Content(handle) = last.preContent
    /\ (last.op = "write_remaining") => ViewContents = last.preViews

C7_Witness ==
    /\ last.op = "write_consumed"
    /\ wr.old # wr.new
    /\ handle.len > 0
    /\ wr.addr = handle.ptr - 1

\* C8: a count of 0 succeeds in all four safe operations on every handle, an
\* empty one included, returns an empty view and leaves the handle's address
\* and length as they were.
C8_ZeroAdvance ==
    (last.op \in CheckedOps \cup FallibleOps /\ last.amount = 0) =>
        /\ last.status = "ok"
        /\ last.out.len = 0
        /\ Content(last.out) = <<>>
        /\ handle.ptr = last.pre.ptr
        /\ handle.len = last.pre.len

C8_Witness ==
    /\ last.op = "advance" /\ last.amount = 0 /\ last.status = "ok"
    /\ last.pre.len = 0

\* C9: a count equal to the handle's length L succeeds in advance and in
\* try_advance, returns all L elements and leaves the handle empty at the end
\* address base+L.
C9_FullAdvance ==
    (last.op \in {"advance", "try_advance"} /\ last.amount = last.pre.len) =>
        /\ last.status = "ok"
        /\ last.out = last.pre
        /\ Content(last.out) = last.preContent
        /\ len(handle) = 0
        /\ handle.ptr = last.pre.ptr + last.pre.len
        /\ is_empty(handle)

C9_Witness ==
    /\ last.op = "try_advance" /\ last.status = "ok"
    /\ last.amount = last.pre.len
    /\ last.pre.len > 1
    /\ is_empty(handle)

\* C10: try_advance and try_advance_array never panic, for any count up to the
\* largest usize: they return NotEnoughData exactly when the count exceeds the
\* length, and a success has exactly the requested number of elements.
C10_FallibleTotal ==
    (last.op \in FallibleOps) =>
        /\ last.status \in {"ok", "err"}
        /\ (last.status = "err") <=> (last.amount > last.pre.len)
        /\ (last.status = "ok") <=> (last.amount <= last.pre.len)
        /\ (last.status = "ok") => Len(Content(last.out)) = last.amount

C10_Witness ==
    /\ last.op = "try_advance" /\ last.status = "err"
    /\ last.amount = USIZE_MAX
    /\ last.pre.len > 0
====
